---------------------------- MODULE Spec2Model ----------------------------
(***************************************************************************)
(* Model of src/main.py: the Outlook client (class Outlook), its new-mail  *)
(* event sink (class InboxEvents) and the process wiring (signal_handler   *)
(* and the __main__ block).                                                *)
(*                                                                         *)
(* Text is modelled as a sequence of one-character strings so that the     *)
(* string operations of the source (replace, lower, startswith, endswith)  *)
(* are computed and not assumed.  Times are minutes since day 0, 00:00 UTC.*)
(***************************************************************************)
EXTENDS Integers, Sequences, FiniteSets, TLC

VARIABLES
    account,        \* Outlook.account
    inbox,          \* Outlook.inbox            (a folder of the store)
    messages,       \* Outlook.messages         (the folder whose Items it is)
    inbox_events,   \* Outlook.inbox_events     (the folder whose Items the sink is registered on)
    folderItems,    \* the store: folder -> its Items collection, in collection order
    result,         \* what the last query operation gave its caller
    pc,             \* position of the program
    queue,          \* platform messages pending for the thread (item-added notifications)
    sinkState,      \* "Idle" | "Processing"
    cur,            \* the item OnItemAdd is handling, and where it is in it
    fs,             \* the two output directories: file name -> content
    pre,            \* fs when the current/last notification was dispatched
    last,           \* outcome of the last handled notification, and of the one before
    arrivals,       \* number of messages that have arrived in the store
    lateHandled,    \* a notification that arrived after the interrupt was given to the sink
    exitStatus      \* status given to sys.exit; -1 while the process runs

vars == <<account, inbox, messages, inbox_events, folderItems, result, pc, queue,
          sinkState, cur, fs, pre, last, arrivals, lateHandled, exitStatus>>

clientVars == <<account, inbox, messages, inbox_events>>
sinkVars   == <<queue, sinkState, cur, fs, pre, last, arrivals, lateHandled, exitStatus>>

None == "None"

-----------------------------------------------------------------------------
(* Bounds *)

MaxArrivals == 3
MaxFolder == 2

-----------------------------------------------------------------------------
(* Text *)

UpperChars == <<"A","B","C","D","E","F","G","H","I","J","K","L","M",
                "N","O","P","Q","R","S","T","U","V","W","X","Y","Z">>
LowerChars == <<"a","b","c","d","e","f","g","h","i","j","k","l","m",
                "n","o","p","q","r","s","t","u","v","w","x","y","z">>

LowerChar(c) ==
    IF \E i \in DOMAIN UpperChars : UpperChars[i] = c
    THEN LowerChars[CHOOSE i \in DOMAIN UpperChars : UpperChars[i] = c]
    ELSE c

\* str.lower()
lower(s) == [i \in DOMAIN s |-> LowerChar(s[i])]

\* str.startswith(p)
startswith(s, p) == Len(p) <= Len(s) /\ SubSeq(s, 1, Len(p)) = p

\* str.endswith(p)
endswith(s, p) == Len(p) <= Len(s) /\ SubSeq(s, Len(s) - Len(p) + 1, Len(s)) = p

\* str.replace(c, '') for a one-character c
replace(s, c) == SelectSeq(s, LAMBDA x : x # c)


-----------------------------------------------------------------------------
(* The store: folders, accounts, messages *)

\* namespace.GetDefaultFolder(6)
DefaultInbox == "inbox:default"

\* namespace.Accounts, with acc.DeliveryStore.GetDefaultFolder(6) of each
NamespaceAccounts ==
    << [DisplayName |-> "work", DeliveryStoreInbox |-> "inbox:work"],
       [DisplayName |-> "home", DeliveryStoreInbox |-> DefaultInbox] >>

Folders == {DefaultInbox} \cup
           {NamespaceAccounts[i].DeliveryStoreInbox : i \in DOMAIN NamespaceAccounts}

\* the values the caller passes as `account`
AccountArgs == {None, "work", "home", "Work", "nobody", ""}

txt(s) == s \o <<".","t","x","t">>

SubjInvoice == <<"I","n","v","o","i","c","e",":"," ","Q","3","/","2","0","2","4">>
SubjPlain   == <<"I","n","v","o","i","c","e"," ","Q","3","2","0","2","4">>
SubjRe      == <<"R","e",":"," ","a","/","b">>

File_a_pdf == <<"a",".","p","d","f">>
File_b_PDF == <<"b",".","P","D","F">>
File_c_txt == <<"c",".","t","x","t">>
File_pdf   == <<"p","d","f">>
File_d_Pdf_bak == <<"d",".","P","d","f",".","b","a","k">>

Attachment(name, payload) == [FileName |-> name, payload |-> payload]

\* the mail items that may arrive while the sink is registered
ArrivingItems ==
    { [Subject |-> SubjInvoice, Body |-> "body1", Attachments |-> <<>>],
      [Subject |-> SubjPlain,   Body |-> "body2", Attachments |-> <<>>],
      [Subject |-> SubjRe,      Body |-> "body3",
       Attachments |-> <<Attachment(File_a_pdf, "bytes1"), Attachment(File_b_PDF, "bytes2")>>],
      [Subject |-> SubjRe,      Body |-> "body4",
       Attachments |-> <<Attachment(File_a_pdf, "bytes3")>>],
      [Subject |-> SubjPlain,   Body |-> "body5",
       Attachments |-> <<Attachment(File_c_txt, "bytes4"), Attachment(File_c_txt, "bytes5")>>] }

MinutesPerDay == 24 * 60

Day(d) == d * MinutesPerDay

Message(subject, received, attachments) ==
    [Subject |-> subject, Body |-> "body", SenderEmailAddress |-> "sender@example.org",
     ReceivedTime |-> received, Attachments |-> attachments]

\* the messages a folder of the store may hold; ReceivedTime in minutes, UTC
StoredMessages ==
    { Message(<<"m","1">>, Day(1) - 30,
              <<Attachment(File_a_pdf, "x"), Attachment(File_b_PDF, "x")>>),
      Message(<<"m","2">>, Day(1), <<>>),
      Message(<<"m","3">>, Day(2) + 23 * 60 + 59, <<Attachment(File_c_txt, "x")>>),
      Message(<<"m","4">>, Day(2) + 22 * 60 + 59, <<Attachment(File_b_PDF, "x")>>),
      Message(<<"m","5">>, Day(1) - 60,
              <<Attachment(File_pdf, "x"), Attachment(File_d_Pdf_bak, "x")>>),
      Message(<<"m","6">>, Day(3), <<Attachment(File_c_txt, "x"), Attachment(File_a_pdf, "x")>>) }

\* an Items collection: distinct messages, in whatever order the store holds them
ItemsCollections ==
    {s \in UNION {[1..n -> StoredMessages] : n \in 0..MaxFolder} :
        \A i, j \in DOMAIN s : i # j => s[i] # s[j]}

\* the Items of the account "work"
WorkItems ==
    << Message(<<"w","1">>, Day(2) + 600, <<Attachment(File_a_pdf, "x")>>),
       Message(<<"w","2">>, Day(1) + 600, <<>>) >>

-----------------------------------------------------------------------------
(* Initial values of the sink's state *)

EmptyDirs == [attachments |-> <<>>, no_attachments |-> <<>>]

NoItem == [Subject |-> <<>>, Body |-> "", Attachments |-> <<>>]
NotHandling == [item |-> NoItem, at |-> "idle", k |-> 0]
NothingHandled == [item |-> NoItem, outcome |-> "none", at |-> "idle", k |-> 0,
                   prev |-> "none"]

-----------------------------------------------------------------------------
(* class Outlook: construction *)

\* the None that next(..., None) gives when no account matches
NoAccount == [DisplayName |-> None, DeliveryStoreInbox |-> None]

\* variant: a name that matches no account is given the first account
found_account_first(name) ==
    LET hits == {i \in DOMAIN NamespaceAccounts : NamespaceAccounts[i].DisplayName = name}
    IN  NamespaceAccounts[IF hits = {} THEN 1 ELSE CHOOSE i \in hits : \A j \in hits : i <= j]

\* next((acc for acc in self.namespace.Accounts if acc.DisplayName == self.account), None)
found_account(name) ==
    LET hits == {i \in DOMAIN NamespaceAccounts : NamespaceAccounts[i].DisplayName = name}
    IN  IF hits = {} THEN NoAccount
        ELSE NamespaceAccounts[CHOOSE i \in hits : \A j \in hits : i <= j]

\* Outlook.__init__(account): the default inbox is resolved, the sink is
\* registered on its Items, and only then is the account looked up.
Outlook_init(acc) ==
    /\ account' = acc
    /\ inbox_events' = DefaultInbox
    /\ IF acc # None /\ found_account(acc) # NoAccount
       THEN /\ inbox' = found_account(acc).DeliveryStoreInbox
            /\ messages' = found_account(acc).DeliveryStoreInbox
       ELSE /\ inbox' = DefaultInbox
            /\ messages' = DefaultInbox

-----------------------------------------------------------------------------
(* class Outlook: the query operations *)

NoResult == [op |-> "none", arg |-> <<>>, folder |-> None, failure |-> "none",
             raised |-> FALSE, value |-> <<>>]

\* the operation returns `value` to its caller
Returned(op, arg, failure, value) ==
    [op |-> op, arg |-> arg, folder |-> messages, failure |-> failure,
     raised |-> FALSE, value |-> value]

\* the operation raises to its caller
Raised(op, arg, failure) ==
    [op |-> op, arg |-> arg, folder |-> messages, failure |-> failure,
     raised |-> TRUE, value |-> <<>>]

\* datetime.strftime of a UTC time: the calendar date and the clock of the day
strftime(t) == [date |-> t \div MinutesPerDay, clock |-> t % MinutesPerDay]

\* Items.GetLast(): the last item of the collection, in collection order
GetLast(items) == items[Len(items)]

\* return {"subject": "", "body": ""}
EmptyRecord == [subject |-> <<>>, body |-> ""]

\* get_last_email; `fails`: the store call raises
get_last_email_value(items, fails) ==
    IF fails \/ Len(items) = 0
    THEN EmptyRecord
    ELSE [subject |-> GetLast(items).Subject,
          body |-> GetLast(items).Body,
          received_time |-> GetLast(items).ReceivedTime]

get_last_email ==
    /\ pc = "ready"
    /\ \E fails \in BOOLEAN :
          result' = Returned("get_last_email", <<>>,
                             IF fails THEN "store"
                             ELSE IF Len(folderItems[messages]) = 0 THEN "empty" ELSE "none",
                             get_last_email_value(folderItems[messages], fails))
    /\ UNCHANGED <<clientVars, folderItems, pc, sinkVars>>

\* the offset of the tzinfo that datetime.replace(tzinfo=pytz.timezone('Europe/Madrid'))
\* attaches: the zone's first entry, local mean time, 15 minutes west of UTC
local_zone_offset == 0 - 15

\* date_str as the caller gives it: a well-formed "YYYY-MM-DD" naming day `day`,
\* or text that datetime.strptime rejects
DateStr(day) == [wellFormed |-> TRUE, day |-> day]
Malformed == [wellFormed |-> FALSE, day |-> 0]

\* datetime.strptime(date_str, "%Y-%m-%d").replace(tzinfo=local_zone), plus `days`
\* days, .astimezone(utc): the UTC time
date_utc(date_str, days) == Day(date_str.day + days) - local_zone_offset

\* utc.strftime('%m/%d/%Y 12:00 AM'): the date of the UTC time, and the clock
\* the format string spells out
start_date(date_str) ==
    [date |-> strftime(date_utc(date_str, 0)).date, clock |-> 0]

\* utc.strftime('%m/%d/%Y 11:59 PM')
end_date(date_str) ==
    [date |-> strftime(date_utc(date_str, 1)).date, clock |-> 23 * 60 + 59]

\* the time the store reads from a date string of the filter
FilterTime(str) == Day(str.date) + str.clock

\* Items.Restrict("[ReceivedTime] >= '<lo>' AND [ReceivedTime] <= '<hi>'")
Restrict(items, lo, hi) ==
    SelectSeq(items, LAMBDA m : /\ m.ReceivedTime >= FilterTime(lo)
                                /\ m.ReceivedTime <= FilterTime(hi))

\* the dict built of a message by the two list queries
EmailDict(m) ==
    [subject |-> m.Subject, body |-> m.Body, sender |-> m.SenderEmailAddress,
     received_time |-> strftime(m.ReceivedTime)]

\* for message in filtered_messages: emails.append({...})
RECURSIVE CollectAll(_, _, _)
CollectAll(items, i, emails) ==
    IF i > Len(items) THEN emails
    ELSE CollectAll(items, i + 1, Append(emails, EmailDict(items[i])))

\* get_emails_from_date once date_str is parsed; failure: "none", "restrict"
\* (Restrict raises) or "enum" (reading a message raises)
get_emails_from_date_value(items, date_str, failure) ==
    IF failure # "none" THEN <<>>
    ELSE CollectAll(Restrict(items, start_date(date_str), end_date(date_str)), 1, <<>>)

DateArgs == {DateStr(1), DateStr(2), Malformed}

get_emails_from_date ==
    /\ pc = "ready"
    /\ \E date_str \in DateArgs, failure \in {"none", "restrict", "enum"} :
          result' = IF ~date_str.wellFormed
                    THEN Raised("get_emails_from_date", date_str, "parse")
                    ELSE Returned("get_emails_from_date", date_str, failure,
                            get_emails_from_date_value(folderItems[messages], date_str, failure))
    /\ UNCHANGED <<clientVars, folderItems, pc, sinkVars>>

\* variant: the extension is used as given
with_dot_as_given(extension) == extension

\* if not extension.startswith('.'): extension = '.' + extension
with_dot(extension) ==
    IF ~startswith(extension, <<".">>) THEN <<".">> \o extension ELSE extension

\* for attachment in message.Attachments: if ...endswith(...): ...; break
RECURSIVE has_matching_attachment(_, _, _)
has_matching_attachment(attachments, i, extension) ==
    IF i > Len(attachments) THEN FALSE
    ELSE IF endswith(lower(attachments[i].FileName), lower(extension)) THEN TRUE
    ELSE has_matching_attachment(attachments, i + 1, extension)

\* for message in self.messages: ...; failAt = k > 0: reading the k-th message
\* raises, the loop is left and the emails collected so far are returned
RECURSIVE ScanMessages(_, _, _, _, _)
ScanMessages(items, i, extension, failAt, emails) ==
    IF i > Len(items) \/ i = failAt THEN emails
    ELSE ScanMessages(items, i + 1, extension, failAt,
            IF /\ Len(items[i].Attachments) > 0
               /\ has_matching_attachment(items[i].Attachments, 1, extension)
            THEN Append(emails, EmailDict(items[i]))
            ELSE emails)

get_emails_with_attachments_value(items, extension, failAt) ==
    ScanMessages(items, 1, with_dot(extension), failAt, <<>>)

ExtensionArgs ==
    { <<"p","d","f">>, <<".","p","d","f">>, <<"P","D","F">>, <<".","P","d","f">>,
      <<"t","x","t">>, <<".","t","x","t">>, <<"b","a","k">>, <<>>, <<".">> }

get_emails_with_attachments ==
    /\ pc = "ready"
    /\ \E extension \in ExtensionArgs, failAt \in 0..Len(folderItems[messages]) :
          result' = Returned("get_emails_with_attachments", extension,
                             IF failAt = 0 THEN "none" ELSE "enum",
                             get_emails_with_attachments_value(folderItems[messages],
                                                               extension, failAt))
    /\ UNCHANGED <<clientVars, folderItems, pc, sinkVars>>

\* a script constructs the client: Outlook(account)
Construct ==
    /\ pc = "main"
    /\ \E acc \in AccountArgs : Outlook_init(acc)
    /\ pc' = "ready"
    /\ UNCHANGED <<folderItems, result, sinkVars>>

QueryInit ==
    /\ account = None /\ inbox = None /\ messages = None /\ inbox_events = None
    /\ folderItems \in {[f \in Folders |-> IF f = DefaultInbox THEN c ELSE WorkItems] :
                           c \in ItemsCollections}
    /\ result = NoResult
    /\ pc = "main"
    /\ queue = <<>>
    /\ sinkState = "Idle"
    /\ cur = NotHandling
    /\ fs = EmptyDirs
    /\ pre = EmptyDirs
    /\ last = NothingHandled
    /\ arrivals = 0
    /\ lateHandled = FALSE
    /\ exitStatus = -1

QueryNext ==
    \/ Construct
    \/ get_last_email
    \/ get_emails_from_date
    \/ get_emails_with_attachments

QuerySpec == QueryInit /\ [][QueryNext]_vars

-----------------------------------------------------------------------------
(* class InboxEvents *)


\* writing a file replaces the file of that name
WriteFile(dir, name, content) == (name :> content) @@ dir

\* variant: Count > 1
HasAttachments_more_than_one(item) == Len(item.Attachments) > 1

\* item.Attachments.Count > 0
HasAttachments(item) == Len(item.Attachments) > 0

\* variant: only ':' is removed
body_file_name_colon_only(item) == txt(replace(item.Subject, ":"))

\* item.Subject.replace(':', '').replace('/', '') + ".txt"
body_file_name(item) == txt(replace(replace(item.Subject, ":"), "/"))

\* variant: the failure is not caught and leaves the pump
Except_uncaught(where) ==
    /\ sinkState' = "Idle"
    /\ last' = [item |-> cur.item, outcome |-> "error", at |-> where, k |-> cur.k,
                prev |-> last.outcome]
    /\ cur' = NotHandling
    /\ pc' = "crashed"
    /\ UNCHANGED queue

\* except Exception as e: print(...) -- the failure ends the handling of this
\* notification and nothing else
Except(where) ==
    /\ sinkState' = "Idle"
    /\ last' = [item |-> cur.item, outcome |-> "error", at |-> where, k |-> cur.k,
                prev |-> last.outcome]
    /\ cur' = NotHandling
    /\ UNCHANGED <<pc, queue>>

\* OnItemAdd returns normally
Return ==
    /\ sinkState' = "Idle"
    /\ last' = [item |-> cur.item, outcome |-> "ok", at |-> cur.at, k |-> cur.k,
                prev |-> last.outcome]
    /\ cur' = NotHandling
    /\ UNCHANGED <<pc, queue>>

\* The pump hands the next pending notification to OnItemAdd(item)
Dispatch ==
    /\ sinkState = "Idle"
    /\ queue # <<>>
    /\ sinkState' = "Processing"
    /\ cur' = [item |-> Head(queue).item, at |-> "count", k |-> 0]
    /\ queue' = Tail(queue)
    /\ pre' = fs
    /\ lateHandled' = (lateHandled \/ Head(queue).late)
    /\ UNCHANGED <<clientVars, folderItems, result, pc, fs, last, arrivals, exitStatus>>

\* if item.Attachments.Count > 0: ... else: ...
ReadCount ==
    /\ sinkState = "Processing" /\ cur.at = "count"
    /\ \/ Except("count") /\ UNCHANGED fs
       \/ /\ cur' = IF HasAttachments(cur.item)
                    THEN [cur EXCEPT !.at = "attach", !.k = 1]
                    ELSE [cur EXCEPT !.at = "open"]
          /\ UNCHANGED <<pc, queue, sinkState, last, fs>>
    /\ UNCHANGED <<clientVars, folderItems, result, pre, arrivals, lateHandled, exitStatus>>

\* save_attachments: attachment.SaveAsFile(attachments_path / attachment.FileName)
SaveAsFile ==
    /\ sinkState = "Processing" /\ cur.at = "attach"
    /\ \/ Except("attach") /\ UNCHANGED fs
       \/ /\ fs' = [fs EXCEPT !.attachments =
                       WriteFile(@, cur.item.Attachments[cur.k].FileName,
                                    cur.item.Attachments[cur.k].payload)]
          /\ IF cur.k < Len(cur.item.Attachments)
             THEN /\ cur' = [cur EXCEPT !.k = @ + 1]
                  /\ UNCHANGED <<pc, queue, sinkState, last>>
             ELSE Return
    /\ UNCHANGED <<clientVars, folderItems, result, pre, arrivals, lateHandled, exitStatus>>

\* save_body: open(body_file_path, 'w', encoding='utf-8')
OpenBodyFile ==
    /\ sinkState = "Processing" /\ cur.at = "open"
    /\ \/ Except("open") /\ UNCHANGED fs
       \/ /\ fs' = [fs EXCEPT !.no_attachments = WriteFile(@, body_file_name(cur.item), "")]
          /\ cur' = [cur EXCEPT !.at = "write"]
          /\ UNCHANGED <<pc, queue, sinkState, last>>
    /\ UNCHANGED <<clientVars, folderItems, result, pre, arrivals, lateHandled, exitStatus>>

\* save_body: file.write(item.Body)
WriteBody ==
    /\ sinkState = "Processing" /\ cur.at = "write"
    /\ \/ Except("write") /\ UNCHANGED fs
       \/ /\ fs' = [fs EXCEPT !.no_attachments =
                       WriteFile(@, body_file_name(cur.item), cur.item.Body)]
          /\ Return
    /\ UNCHANGED <<clientVars, folderItems, result, pre, arrivals, lateHandled, exitStatus>>

-----------------------------------------------------------------------------
(* The process: __main__ and signal_handler *)

\* signal.signal(...); outlook = Outlook(); pythoncom.PumpMessages() is entered
Main ==
    /\ pc = "main"
    /\ Outlook_init(None)
    /\ pc' = "pump"
    /\ UNCHANGED <<folderItems, result, sinkVars>>

\* A message arrives in folder f of the store.  The store posts an item-added
\* notification to the thread iff the sink is registered on f's Items and the
\* process is alive.
Arrive ==
    /\ arrivals < MaxArrivals
    /\ arrivals' = arrivals + 1
    /\ \E f \in Folders, item \in ArrivingItems :
          queue' = IF pc \in {"pump", "handler", "exiting"} /\ inbox_events = f
                   THEN Append(queue, [item |-> item, late |-> (pc # "pump")])
                   ELSE queue
    /\ UNCHANGED <<clientVars, folderItems, result, pc, sinkState, cur, fs, pre, last,
                   lateHandled, exitStatus>>

\* pythoncom.PumpMessages(): dispatch the next pending message
PumpMessages ==
    /\ pc = "pump"
    /\ Dispatch

\* SIGINT is delivered while the thread waits in the pump: signal_handler starts
Interrupt ==
    /\ pc = "pump" /\ sinkState = "Idle"
    /\ pc' = "handler"
    /\ UNCHANGED <<clientVars, folderItems, result, sinkVars>>

\* signal_handler: pythoncom.PumpWaitingMessages() dispatches a waiting message
PumpWaitingMessages ==
    /\ pc = "handler"
    /\ Dispatch

\* signal_handler: no message is waiting, pythoncom.PumpWaitingMessages() returns
PumpWaitingReturns ==
    /\ pc = "handler" /\ sinkState = "Idle" /\ queue = <<>>
    /\ pc' = "exiting"
    /\ UNCHANGED <<clientVars, folderItems, result, sinkVars>>

\* variant: the handler returns to the pump instead of exiting
SysExit_returns ==
    /\ pc = "exiting"
    /\ pc' = "pump"
    /\ UNCHANGED <<clientVars, folderItems, result, queue, sinkState, cur, fs, pre, last,
                   arrivals, lateHandled, exitStatus>>

\* signal_handler: sys.exit(0)
SysExit ==
    /\ pc = "exiting"
    /\ pc' = "exited"
    /\ exitStatus' = 0
    /\ UNCHANGED <<clientVars, folderItems, result, queue, sinkState, cur, fs, pre, last,
                   arrivals, lateHandled>>

Init ==
    /\ account = None /\ inbox = None /\ messages = None /\ inbox_events = None
    /\ folderItems = [f \in Folders |-> <<>>]
    /\ result = NoResult
    /\ pc = "main"
    /\ queue = <<>>
    /\ sinkState = "Idle"
    /\ cur = NotHandling
    /\ fs = EmptyDirs
    /\ pre = EmptyDirs
    /\ last = NothingHandled
    /\ arrivals = 0
    /\ lateHandled = FALSE
    /\ exitStatus = -1

Next ==
    \/ Main
    \/ Arrive
    \/ PumpMessages
    \/ ReadCount
    \/ SaveAsFile
    \/ OpenBodyFile
    \/ WriteBody
    \/ Interrupt
    \/ PumpWaitingMessages
    \/ PumpWaitingReturns
    \/ SysExit

Spec == Init /\ [][Next]_vars

\* The pump and the handler run whenever they can: the thread is never
\* descheduled for ever, and every call of the sink returns or raises.
FairSpec ==
    /\ Spec
    /\ WF_vars(PumpMessages) /\ WF_vars(PumpWaitingMessages)
    /\ WF_vars(ReadCount) /\ WF_vars(SaveAsFile)
    /\ WF_vars(OpenBodyFile) /\ WF_vars(WriteBody)
    /\ WF_vars(PumpWaitingReturns) /\ WF_vars(SysExit)

-----------------------------------------------------------------------------
(* Properties of the query operations, checked under QuerySpec *)

\* the Items collection the last query read
ItemsRead == folderItems[result.folder]

Subjects(seq) == {seq[i].subject : i \in DOMAIN seq}

\* Europe/Madrid in winter: local time is UTC + 1 hour
MadridUtcOffset == 1 * 60

\* C2: for every date D, getMessagesOnDate(D) returns exactly the messages of the
\* working folder whose received time (UTC) lies in the closed interval from the
\* UTC instant of D 00:00 Madrid time to the UTC instant of (D+1) 23:59 Madrid time.
C2_WindowIsLocalDayInUtc ==
    (result.op = "get_emails_from_date" /\ result.failure = "none") =>
        Subjects(result.value) =
            { ItemsRead[i].Subject : i \in
                { j \in DOMAIN ItemsRead :
                    /\ ItemsRead[j].ReceivedTime >= Day(result.arg.day) - MadridUtcOffset
                    /\ ItemsRead[j].ReceivedTime <=
                          Day(result.arg.day + 1) + 23 * 60 + 59 - MadridUtcOffset } }

\* C3: no failure inside a query operation is raised to the caller, and the
\* operation then returns its safe default: the empty list for the two list
\* queries, the empty record for getLastMessage.
C3_FailuresGiveSafeDefault ==
    (result.op # "none" /\ result.failure # "none") =>
        /\ ~result.raised
        /\ IF result.op = "get_last_email"
           THEN result.value = EmptyRecord
           ELSE result.value = <<>>

\* C6: for a folder with at least one message getLastMessage returns the message
\* whose received time is the maximum over the folder, whatever the order of the
\* item collection; for an empty folder it returns the empty record.
C6_LastIsLatestReceived ==
    (result.op = "get_last_email" /\ result.failure \in {"none", "empty"}) =>
        IF Len(ItemsRead) = 0
        THEN result.value = EmptyRecord
        ELSE \E i \in DOMAIN ItemsRead :
                /\ \A j \in DOMAIN ItemsRead :
                      ItemsRead[j].ReceivedTime <= ItemsRead[i].ReceivedTime
                /\ result.value = [subject |-> ItemsRead[i].Subject,
                                   body |-> ItemsRead[i].Body,
                                   received_time |-> ItemsRead[i].ReceivedTime]

\* the extension without / with its leading '.'
Bare(E) == IF startswith(E, <<".">>) THEN Tail(E) ELSE E
Dotted(E) == <<".">> \o Bare(E)

EqIgnoringCase(c, d) ==
    c = d \/ \E i \in DOMAIN UpperChars : {c, d} = {UpperChars[i], LowerChars[i]}

EndsWithIgnoringCase(s, p) ==
    /\ Len(p) <= Len(s)
    /\ \A i \in 1..Len(p) : EqIgnoringCase(s[Len(s) - Len(p) + i], p[i])

Qualifies(m, E) ==
    \E i \in DOMAIN m.Attachments :
        EndsWithIgnoringCase(m.Attachments[i].FileName, Dotted(E))

\* C5: getMessagesWithAttachmentExtension(E) gives the same result for E with and
\* without the leading '.', holds a message iff one of its attachment file names
\* ends with '.'+E ignoring case, and holds each such message exactly once.
C5_ExtensionQuery ==
    (result.op = "get_emails_with_attachments" /\ result.failure = "none") =>
        /\ result.value = get_emails_with_attachments_value(ItemsRead, Bare(result.arg), 0)
        /\ result.value = get_emails_with_attachments_value(ItemsRead, Dotted(result.arg), 0)
        /\ \A i \in DOMAIN ItemsRead :
              Cardinality({k \in DOMAIN result.value :
                              result.value[k] = EmailDict(ItemsRead[i])})
                 = IF Qualifies(ItemsRead[i], result.arg) THEN 1 ELSE 0
        /\ \A k \in DOMAIN result.value :
              \E i \in DOMAIN ItemsRead : result.value[k] = EmailDict(ItemsRead[i])

\* a message with two matching attachments (a.pdf, b.PDF), asked for as "pdf",
\* is in the result
C5_Witness ==
    /\ result.op = "get_emails_with_attachments" /\ result.failure = "none"
    /\ result.arg = <<"p","d","f">>
    /\ \E i \in DOMAIN ItemsRead :
          /\ Cardinality({a \in DOMAIN ItemsRead[i].Attachments :
                EndsWithIgnoringCase(ItemsRead[i].Attachments[a].FileName,
                                     <<".","p","d","f">>)}) = 2
          /\ \E k \in DOMAIN result.value : result.value[k] = EmailDict(ItemsRead[i])
    /\ Len(result.value) < Len(ItemsRead)

MatchingAccounts ==
    {i \in DOMAIN NamespaceAccounts : NamespaceAccounts[i].DisplayName = account}

\* C7: an account name that is the display name of no account leaves the client
\* constructed, with the default inbox as working folder and message collection,
\* and every later query reads the default inbox; a name that matches an account
\* makes that account's inbox the working folder and message collection.
C7_AccountFallback ==
    (pc = "ready") =>
        IF account = None \/ MatchingAccounts = {}
        THEN /\ inbox = DefaultInbox
             /\ messages = DefaultInbox
             /\ result.op # "none" => result.folder = DefaultInbox
        ELSE \E i \in MatchingAccounts :
                /\ inbox = NamespaceAccounts[i].DeliveryStoreInbox
                /\ messages = NamespaceAccounts[i].DeliveryStoreInbox
                /\ result.op # "none" =>
                      result.folder = NamespaceAccounts[i].DeliveryStoreInbox

\* constructed with a name no account has, and a query has read the default inbox
C7_Witness ==
    /\ pc = "ready"
    /\ account = "nobody"
    /\ result.op = "get_last_email" /\ result.failure = "none"
    /\ result.folder = DefaultInbox
    /\ result.value.subject = GetLast(folderItems[DefaultInbox]).Subject

\* C8: once the client is constructed, the item collection the sink is registered
\* on is the item collection of the working folder.
C8_SinkOnWorkingFolder ==
    (pc # "main") => inbox_events = messages

-----------------------------------------------------------------------------
(* Properties of the sink and of the process, checked under Spec / FairSpec *)

Pumping == pc \in {"pump", "handler"}

\* the directory after attachments 1..k of the item have been saved into it
RECURSIVE SavedUpTo(_, _, _)
SavedUpTo(dir, item, k) ==
    IF k = 0 THEN dir
    ELSE WriteFile(SavedUpTo(dir, item, k - 1),
                   item.Attachments[k].FileName, item.Attachments[k].payload)

\* the directories after the item has been handled to the end, starting from dirs
HandledToTheEnd(dirs, item) ==
    IF Len(item.Attachments) > 0
    THEN [dirs EXCEPT !.attachments = SavedUpTo(@, item, Len(item.Attachments))]
    ELSE [dirs EXCEPT !.no_attachments = WriteFile(@, body_file_name(item), item.Body)]

\* a step in which the handling of a notification fails
FailureStep ==
    /\ sinkState = "Processing"
    /\ sinkState' = "Idle"
    /\ last'.outcome = "error"

\* C1: a failure while handling one notification is caught inside OnItemAdd: the
\* sink is Idle again, the pump goes on and the pending notifications stay
\* pending; the sink never stays in Processing, a pending notification is
\* handed to the sink whatever happened to the ones before it, and the
\* notification handled after a failed one has the effect it has after any other.
C1_FailureIsContained ==
    /\ []((sinkState = "Idle" /\ last.prev = "error" /\ last.outcome = "ok") =>
              fs = HandledToTheEnd(pre, last.item))
    /\ [][FailureStep => (pc' = pc /\ queue' = queue /\ fs' = fs)]_vars
    /\ [](pc \in {"main", "pump", "handler", "exiting", "exited"})
    /\ (sinkState = "Processing") ~> (sinkState = "Idle")
    /\ (Pumping /\ queue # <<>>) ~> (sinkState = "Processing")

\* a notification was handled without failure right after one that failed
C1_Witness ==
    /\ sinkState = "Idle"
    /\ last.prev = "error"
    /\ last.outcome = "ok"
    /\ Pumping

File_InvoiceQ32024_txt ==
    <<"I","n","v","o","i","c","e","Q","3","2","0","2","4",".","t","x","t">>
File_Invoice_Q32024_txt ==
    <<"I","n","v","o","i","c","e"," ","Q","3","2","0","2","4",".","t","x","t">>

\* the sink has just handled, without failure, the message with subject
\* `Invoice: Q3/2024` and no attachments
InvoiceHandled ==
    /\ sinkState = "Idle"
    /\ last.outcome = "ok"
    /\ last.item.Subject = SubjInvoice
    /\ Len(last.item.Attachments) = 0

\* C4 as stated: the body of the message with subject `Invoice: Q3/2024` and no
\* attachments is written to the file named exactly `InvoiceQ32024.txt`.
C4_BodyFileIsInvoiceQ32024 ==
    InvoiceHandled =>
        /\ File_InvoiceQ32024_txt \in DOMAIN fs.no_attachments
        /\ fs.no_attachments[File_InvoiceQ32024_txt] = last.item.Body

\* C4 as amended: the body is written to the file named exactly
\* `Invoice Q32024.txt` (':' and '/' are removed, the space stays), and to no
\* other file.
C4_BodyFileIsInvoiceSpaceQ32024 ==
    InvoiceHandled =>
        /\ fs.no_attachments =
              WriteFile(pre.no_attachments, File_Invoice_Q32024_txt, last.item.Body)
        /\ File_InvoiceQ32024_txt \notin DOMAIN fs.no_attachments

C4_Witness ==
    /\ InvoiceHandled
    /\ fs.no_attachments[File_Invoice_Q32024_txt] = "body1"

\* C9: a notification never has both persistence actions performed, and one
\* that is handled to the end has exactly one: an item with attachments has
\* every attachment written under its file name (replacing a file of that name)
\* and nothing is written to the bodies directory; an item without attachments
\* has exactly one file, holding its body, written to the bodies directory and
\* the attachments directory is unchanged.  When saving the k-th attachment
\* fails, the files of attachments 1..k-1 stay written and no body file is
\* created.
C9_OnePersistenceAction ==
    /\ (fs.attachments = pre.attachments) \/ (fs.no_attachments = pre.no_attachments)
    /\ (sinkState = "Idle" /\ last.outcome = "ok") =>
          IF Len(last.item.Attachments) > 0
          THEN /\ last.at = "attach"
               /\ fs.attachments =
                     SavedUpTo(pre.attachments, last.item, Len(last.item.Attachments))
               /\ \A i \in DOMAIN last.item.Attachments :
                     last.item.Attachments[i].FileName \in DOMAIN fs.attachments
               /\ fs.no_attachments = pre.no_attachments
          ELSE /\ last.at = "write"
               /\ fs.no_attachments =
                     WriteFile(pre.no_attachments, body_file_name(last.item), last.item.Body)
               /\ fs.attachments = pre.attachments
    /\ (sinkState = "Idle" /\ last.outcome = "error" /\ last.at = "attach") =>
          /\ fs.attachments = SavedUpTo(pre.attachments, last.item, last.k - 1)
          /\ fs.no_attachments = pre.no_attachments

\* saving the second attachment of an item failed; the first stays written
C9_Witness ==
    /\ sinkState = "Idle"
    /\ last.outcome = "error" /\ last.at = "attach" /\ last.k = 2
    /\ last.item.Attachments[2].FileName = File_b_PDF
    /\ File_a_pdf \in DOMAIN fs.attachments
    /\ fs.attachments[File_a_pdf] = last.item.Attachments[1].payload
    /\ File_b_PDF \notin DOMAIN fs.attachments

\* the signal handler is running, or has run
Interrupted == pc \in {"handler", "exiting", "exited"}

\* once PumpWaitingMessages has returned the sink is given nothing
NothingHandledAfterDrain ==
    pc \in {"exiting", "exited"} => UNCHANGED <<sinkState, cur, fs, last, lateHandled>>

=============================================================================
